---- MODULE Spec2Model ----
(***************************************************************************)
(* The node_package pipeline of sendwave/pants_node/package.py: the rule   *)
(* get_node_package_digest with the rules it requests                      *)
(* (get_node_package_file_sources, get_node_search_paths,                  *)
(* strip_source_roots) and the engine intrinsics they call (RemovePrefix,  *)
(* AddPrefix, MergeDigests, DigestEntries, SourceRootsRequest,             *)
(* BinaryPathRequest, Process).                                            *)
(*                                                                         *)
(* A path is a sequence of components, a digest a set of entries           *)
(* [path, is_file, content], a directory name of the search path and a     *)
(* PATH value a sequence of characters, process output a sequence of       *)
(* bytes. An optional value is <<>> (None) or <<v>>.                       *)
(***************************************************************************)
EXTENDS Integers, Sequences, FiniteSets, TLC

VARIABLES
    field_set,          \* NodeProjectFieldSet: spec_path, artifact_paths, output_path
    closure,            \* the engine's TransitiveTargets answer for the package
    options,            \* NodeSubsystem options: use_nvm, search_paths
    environ,            \* the value of NVM_BIN in the process environment, optional
    bins,               \* the directories that hold an npm executable
    source_roots,       \* the declared source roots, read by SourceRootsRequest
    pc,                 \* position in get_node_package_digest
    steps,              \* the steps executed so far, in order
    error,              \* the exception that ended the rule, optional
    source_files,       \* SourceFiles of step 1, optional
    stripped_files,     \* the sources with the package root removed, optional
    binary_request,     \* the search_path handed to BinaryPathRequest, optional
    node_paths,         \* NPMPath, optional
    procs,              \* the Process requests executed, with their results
    log,                \* what logger.info received from log_console_output
    npm_install_result, \* output digest of npm install, optional
    build_context,      \* merged sources and node_modules, optional
    build_result,       \* output digest of the build script, optional
    package             \* the digest the rule returns, optional

vars == <<field_set, closure, options, environ, bins, source_roots, pc, steps,
          error, source_files, stripped_files, binary_request, node_paths,
          procs, log, npm_install_result, build_context, build_result, package>>

None == <<>>
Some(v) == <<v>>

\* ------------------------------------------------------------------ bounds
MaxDeps == 2
MaxBuildFiles == 2
MaxSearchPaths == 2

\* ------------------------------------------------------------------ paths and digests
IsPrefix(p, q) == Len(p) <= Len(q) /\ SubSeq(q, 1, Len(p)) = p

DropPrefix(p, q) == SubSeq(q, Len(p) + 1, Len(q))

\* RelativePath normalisation of the engine: "." components are dropped
RECURSIVE Normalize(_)
Normalize(p) ==
    IF p = <<>> THEN <<>>
    ELSE IF Head(p) = "." THEN Normalize(Tail(p))
    ELSE <<Head(p)>> \o Normalize(Tail(p))

File(p, c) == [path |-> p, is_file |-> TRUE, content |-> c]
Directory(p) == [path |-> p, is_file |-> FALSE, content |-> 0]

AddPrefix(digest, prefix) ==
    {[e EXCEPT !.path = Normalize(prefix) \o e.path] : e \in digest}

\* variant: entries outside the prefix are let through
RemovePrefixLenient(digest, prefix) == FALSE

\* RemovePrefix raises when an entry does not start with the prefix
RemovePrefixFails(digest, prefix) ==
    \E e \in digest : ~IsPrefix(Normalize(prefix), e.path)

RemovePrefix(digest, prefix) ==
    {[e EXCEPT !.path = DropPrefix(Normalize(prefix), e.path)] : e \in digest}

\* MergeDigests raises when two digests hold different entries at one path
MergeDigestsFails(digests) ==
    \E d1 \in digests, d2 \in digests : \E e1 \in d1, e2 \in d2 :
        e1.path = e2.path /\ e1 # e2

MergeDigests(digests) == UNION digests

\* ------------------------------------------------------------------ source roots
ParentOf(p) == SubSeq(p, 1, Len(p) - 1)

\* SourceRootsRequest(files, dirs): a file is looked up by its directory; the
\* root is the nearest declared root at or above that directory
RootsAbove(e, roots) ==
    {r \in roots : IsPrefix(r, IF e.is_file THEN ParentOf(e.path) ELSE e.path)}

HasSourceRoot(e, roots) == RootsAbove(e, roots) # {}

\* SourceRoot.path; the root of the repository is "."
SourceRootPath(e, roots) ==
    LET r == CHOOSE r \in RootsAbove(e, roots) :
                 \A r2 \in RootsAbove(e, roots) : Len(r2) <= Len(r)
    IN  IF r = <<>> THEN <<".">> ELSE r

\* variant: one root, the shortest, is removed from every entry
StrippedDigestsGlobal(entries, roots) ==
    IF entries = {} THEN {}
    ELSE LET e0 == CHOOSE e \in entries :
                       \A e2 \in entries :
                           Len(SourceRootPath(e, roots)) <= Len(SourceRootPath(e2, roots))
         IN  {RemovePrefix(entries, SourceRootPath(e0, roots))}

\* variant: what is left of a path has a source root removed once more
StrippedDigestsTwice(entries, roots) ==
    LET once == {[e EXCEPT !.path = DropPrefix(Normalize(SourceRootPath(e, roots)), e.path)] :
                    e \in entries}
    IN  {{[e EXCEPT !.path =
               IF HasSourceRoot(e, roots)
               THEN DropPrefix(Normalize(SourceRootPath(e, roots)), e.path)
               ELSE e.path] : e \in once}}

\* strip_source_roots after its SourceRootsRequest was answered:
\* roots_to_entries, one RemovePrefix per root, MergeDigests
StrippedDigests(entries, roots) ==
    LET path_to_root == [e \in entries |-> SourceRootPath(e, roots)]
        keys == {path_to_root[e] : e \in entries}
        roots_to_entries == [root \in keys |-> {e \in entries : path_to_root[e] = root}]
    IN  {RemovePrefix(roots_to_entries[root], root) : root \in keys}

StripSourceRootsGroupFails(entries, roots) ==
    LET path_to_root == [e \in entries |-> SourceRootPath(e, roots)]
        keys == {path_to_root[e] : e \in entries}
    IN  \E root \in keys :
            RemovePrefixFails({e \in entries : path_to_root[e] = root}, root)

\* the rule strip_source_roots: [kind, digest]
strip_source_roots(digest, roots) ==
    IF \E e \in digest : ~HasSourceRoot(e, roots)
    THEN [kind |-> "NoSourceRootError", digest |-> {}]
    ELSE IF StripSourceRootsGroupFails(digest, roots)
    THEN [kind |-> "PrefixMismatch", digest |-> {}]
    ELSE IF MergeDigestsFails(StrippedDigests(digest, roots))
    THEN [kind |-> "MergeConflict", digest |-> {}]
    ELSE [kind |-> "ok", digest |-> MergeDigests(StrippedDigests(digest, roots))]

\* ------------------------------------------------------------------ text
\* bytes.decode("utf-8") over one- and two-byte sequences
RECURSIVE Utf8Valid(_)
Utf8Valid(b) ==
    IF b = <<>> THEN TRUE
    ELSE IF b[1] < 128 THEN Utf8Valid(Tail(b))
    ELSE IF b[1] >= 194 /\ b[1] <= 223 /\ Len(b) >= 2 /\ b[2] >= 128 /\ b[2] <= 191
    THEN Utf8Valid(Tail(Tail(b)))
    ELSE FALSE

RECURSIVE Utf8Decode(_)
Utf8Decode(b) ==
    IF b = <<>> THEN <<>>
    ELSE IF b[1] < 128 THEN <<b[1]>> \o Utf8Decode(Tail(b))
    ELSE <<(b[1] - 192) * 64 + (b[2] - 128)>> \o Utf8Decode(Tail(Tail(b)))

\* str.replace("\\n", "\n"): backslash (92) followed by n (110) becomes newline (10)
RECURSIVE ReplaceEscapedNewlines(_)
ReplaceEscapedNewlines(s) ==
    IF Len(s) < 2 THEN s
    ELSE IF s[1] = 92 /\ s[2] = 110 THEN <<10>> \o ReplaceEscapedNewlines(Tail(Tail(s)))
    ELSE <<s[1]>> \o ReplaceEscapedNewlines(Tail(s))

\* what log_console_output hands to logger.info
ConsoleText(output) == ReplaceEscapedNewlines(Utf8Decode(output))

\* ":".join(search_paths)
RECURSIVE Join(_)
Join(dirs) ==
    IF dirs = <<>> THEN <<>>
    ELSE IF Len(dirs) = 1 THEN dirs[1]
    ELSE dirs[1] \o <<":">> \o Join(Tail(dirs))

\* ------------------------------------------------------------------ toolchain
\* Environment of EnvironmentRequest(["NVM_BIN"]): the requested names that are set
Environment(env) ==
    IF env = None THEN [n \in {} |-> <<>>] ELSE [n \in {"NVM_BIN"} |-> env[1]]

\* the local search_paths of get_node_search_paths when BinaryPathRequest is
\* built; None: the name is unbound and the rule raises UnboundLocalError
SearchPathsBound(opts, env) ==
    IF opts.use_nvm
    THEN IF DOMAIN Environment(env) # {}
         THEN Some(<<Environment(env)["NVM_BIN"]>> \o opts.search_paths)
         ELSE None
    ELSE Some(opts.search_paths)

\* BinaryPaths.first_path of BinaryPathRequest("npm", search_path), optional
RECURSIVE FirstPath(_, _)
FirstPath(search_path, present) ==
    IF search_path = <<>> THEN None
    ELSE IF Head(search_path) \in present
    THEN Some(Head(search_path) \o <<"/", "n", "p", "m">>)
    ELSE FirstPath(Tail(search_path), present)

\* the rule get_node_search_paths: [kind, binary_path, search_paths]
get_node_search_paths(opts, env, present) ==
    LET bound == SearchPathsBound(opts, env)
    IN  IF bound = None
        THEN [kind |-> "UnboundLocalError", binary_path |-> <<>>, search_paths |-> <<>>]
        ELSE IF FirstPath(bound[1], present) = None
        THEN [kind |-> "ValueError", binary_path |-> <<>>, search_paths |-> bound[1]]
        ELSE [kind |-> "ok", binary_path |-> FirstPath(bound[1], present)[1],
              search_paths |-> bound[1]]

\* ------------------------------------------------------------------ processes
\* the part of the sandbox a Process returns for output_directories
OutputDirectory(pattern) ==
    IF pattern # <<>> /\ pattern[Len(pattern)] = "**"
    THEN SubSeq(pattern, 1, Len(pattern) - 1)
    ELSE pattern

Capture(produced, output_directories) ==
    {e \in produced :
        \E i \in 1..Len(output_directories) :
            IsPrefix(OutputDirectory(Normalize(output_directories[i])), e.path)}

\* variant: PATH holds only the directory npm was found in
ProcessPathOfBinaryOnly(npm_path, args, input_digest, output_directories, search_paths) ==
    [argv |-> <<npm_path>> \o args,
     input_digest |-> input_digest,
     output_directories |-> output_directories,
     env |-> [n \in {"PATH"} |-> SubSeq(npm_path, 1, Len(npm_path) - 4)]]

\* Process(argv, input_digest, output_directories, env={"PATH": search_path})
Process(npm_path, args, input_digest, output_directories, search_paths) ==
    [argv |-> <<npm_path>> \o args,
     input_digest |-> input_digest,
     output_directories |-> output_directories,
     env |-> [n \in {"PATH"} |-> Join(search_paths)]]

\* ------------------------------------------------------------------ the repository under build
ServicesApp == <<"services", "app">>
Lib == <<"lib">>

\* targets the package may depend on: [address, has_field, sources];
\* has_field: the target has a NodeLibrarySourcesField
Targets ==
    { [address |-> ServicesApp, has_field |-> TRUE,
       sources |-> {File(ServicesApp \o <<"package.json">>, 1),
                    File(ServicesApp \o <<"src", "index.js">>, 2)}],
      [address |-> Lib, has_field |-> TRUE,
       sources |-> {File(Lib \o <<"util.js">>, 3)}],
      [address |-> ServicesApp, has_field |-> FALSE,
       sources |-> {File(ServicesApp \o <<"main.py">>, 4)}] }

Closures == {c \in SUBSET Targets : Cardinality(c) <= MaxDeps}

SpecPaths == {<<>>, ServicesApp, Lib}

ArtifactPathsChoices ==
    { << <<"dist", "**">> >>, << <<"dist", "**">>, <<"build">> >> }

OutputPaths == {None, Some(<<"bundles", "app">>), Some(<<>>)}

\* source-root declarations the repository may have
RootSets ==
    { {}, {<<>>}, {<<"services">>}, {ServicesApp}, {<<>>, ServicesApp},
      {ServicesApp, ServicesApp \o <<"dist">>},
      {ServicesApp \o <<"dist">>, ServicesApp \o <<"build">>},
      {ServicesApp, <<"dist">>} }

\* what the build script may leave in its sandbox, besides its inputs
BuildCandidates ==
    { File(<<"dist", "bundle.js">>, 5), File(<<"build", "bundle.js">>, 5),
      File(<<"build", "bundle.js">>, 6), File(<<"tmp", "junk.js">>, 7),
      Directory(<<"dist", "empty">>) }

BuildProducts ==
    {d \in SUBSET BuildCandidates :
        /\ Cardinality(d) <= MaxBuildFiles
        /\ \A e1 \in d, e2 \in d : e1.path = e2.path => e1 = e2}

\* what npm install may leave in ./node_modules
InstallProducts == { {}, {File(<<"node_modules", "dep", "index.js">>, 8)} }

\* results of a subprocess: exit code, stdout bytes, stderr
Stdouts == { <<111, 92, 110, 107>>, <<195, 169>>, <<255>> }

ProcessOutcomes ==
    {[exit_code |-> 0, stdout |-> out, stderr |-> ""] : out \in Stdouts}
    \cup {[exit_code |-> 1, stdout |-> out, stderr |-> "network error"] :
             out \in {<<111, 92, 110, 107>>, <<255>>}}

DirA == <<"/", "a">>
DirB == <<"/", "b">>
NvmBin == <<"/", "n">>

RECURSIVE SeqsUpTo(_, _)
SeqsUpTo(S, n) ==
    IF n = 0 THEN {<<>>}
    ELSE SeqsUpTo(S, n - 1) \cup
         {Append(q, x) : q \in {r \in SeqsUpTo(S, n - 1) : Len(r) = n - 1}, x \in S}

SearchPathsChoices == SeqsUpTo({DirA, DirB}, MaxSearchPaths)

\* ------------------------------------------------------------------ initial states
Fresh ==
    /\ source_roots = None
    /\ pc = "collect"
    /\ steps = <<>>
    /\ error = None
    /\ source_files = None
    /\ stripped_files = None
    /\ binary_request = None
    /\ node_paths = None
    /\ procs = <<>>
    /\ log = <<>>
    /\ npm_install_result = None
    /\ build_context = None
    /\ build_result = None
    /\ package = None

\* any package, with the toolchain options at their defaults
InitPackages ==
    /\ field_set \in [spec_path : SpecPaths, artifact_paths : ArtifactPathsChoices,
                      output_path : OutputPaths]
    /\ closure \in Closures
    /\ options = [use_nvm |-> TRUE, search_paths |-> <<DirA, DirB>>]
    /\ environ \in {None, Some(NvmBin)}
    /\ bins \in {{DirB}, {DirB, NvmBin}}
    /\ Fresh

\* any toolchain configuration, for one package
InitToolchains ==
    /\ field_set = [spec_path |-> ServicesApp, artifact_paths |-> << <<"dist", "**">> >>,
                    output_path |-> None]
    /\ closure = {t \in Targets : t.address = ServicesApp /\ t.has_field}
    /\ options \in [use_nvm : BOOLEAN, search_paths : SearchPathsChoices]
    /\ environ \in {None, Some(<<>>), Some(NvmBin)}
    /\ bins \in SUBSET {DirA, DirB, NvmBin}
    /\ Fresh

Init == InitPackages \/ InitToolchains

\* ------------------------------------------------------------------ the rule, one await per action
Exception(kind) ==
    [kind |-> kind, exit_code |-> 0, stdout |-> <<>>, stderr |-> "", searched |-> <<>>]

\* variant: the exit code is not looked at
ProcessNeverRaises(outcome) == FALSE

\* Get(ProcessResult, Process) raises ProcessExecutionFailure on a non-zero exit
ProcessRaises(outcome) == outcome.exit_code # 0

ProcessExecutionFailure(outcome) ==
    [Exception("ProcessExecutionFailure") EXCEPT
        !.exit_code = outcome.exit_code, !.stdout = outcome.stdout,
        !.stderr = outcome.stderr]

\* variant: a failed step is attempted again
RaiseAndRetry(step, exc) ==
    /\ pc' = pc
    /\ steps' = Append(steps, step)
    /\ error' = Some(exc)

\* an exception leaves the rule
Raise(step, exc) ==
    /\ pc' = "failed"
    /\ steps' = Append(steps, step)
    /\ error' = Some(exc)

Proceed(step, next) ==
    /\ pc' = next
    /\ steps' = Append(steps, step)
    /\ error' = error

\* get_node_package_file_sources: the sources of the closure's node libraries
CollectedSources(targets) ==
    UNION {t.sources : t \in {u \in targets : u.has_field}}

Collect ==
    /\ pc = "collect"
    /\ source_files' = Some(CollectedSources(closure))
    /\ Proceed("collect", "strip")
    /\ UNCHANGED <<field_set, closure, options, environ, bins, source_roots,
                   stripped_files, binary_request, node_paths, procs, log,
                   npm_install_result, build_context, build_result, package>>

Strip ==
    /\ pc = "strip"
    /\ IF RemovePrefixFails(source_files[1], field_set.spec_path)
       THEN /\ Raise("strip", Exception("PrefixMismatch"))
            /\ stripped_files' = stripped_files
       ELSE /\ Proceed("strip", "locate")
            /\ stripped_files' = Some(RemovePrefix(source_files[1], field_set.spec_path))
    /\ UNCHANGED <<field_set, closure, options, environ, bins, source_roots,
                   source_files, binary_request, node_paths, procs, log,
                   npm_install_result, build_context, build_result, package>>

Locate ==
    /\ pc = "locate"
    /\ LET npm == get_node_search_paths(options, environ, bins)
       IN  /\ binary_request' =
                  IF npm.kind = "UnboundLocalError" THEN None ELSE Some(npm.search_paths)
           /\ IF npm.kind = "ok"
              THEN /\ Proceed("locate", "install")
                   /\ node_paths' = Some([binary_path |-> npm.binary_path,
                                          search_paths |-> npm.search_paths])
              ELSE /\ Raise("locate",
                            [Exception(npm.kind) EXCEPT !.searched = npm.search_paths])
                   /\ node_paths' = node_paths
    /\ UNCHANGED <<field_set, closure, options, environ, bins, source_roots,
                   source_files, stripped_files, procs, log,
                   npm_install_result, build_context, build_result, package>>

\* variant: the output is not logged
log_console_output_dropped(logged, output) == logged

\* log_console_output, for output that decodes
log_console_output(logged, output) == Append(logged, ConsoleText(output))

\* a Process request with the result the engine returned for it
Started(process, outcome, output_digest) ==
    Append(procs, [process |-> process, exit_code |-> outcome.exit_code,
                   stdout |-> outcome.stdout, stderr |-> outcome.stderr,
                   output_digest |-> output_digest])

Install ==
    /\ pc = "install"
    /\ \E outcome \in ProcessOutcomes, node_modules \in InstallProducts :
        /\ procs' = Started(Process(node_paths[1].binary_path,
                                    <<"install", "--no-bin-links">>,
                                    stripped_files[1], << <<".", "node_modules">> >>,
                                    node_paths[1].search_paths), outcome, node_modules)
        /\ IF ProcessRaises(outcome)
           THEN /\ Raise("install", ProcessExecutionFailure(outcome))
                /\ UNCHANGED <<log, npm_install_result>>
           ELSE IF ~Utf8Valid(outcome.stdout)
           THEN /\ Raise("install", Exception("UnicodeDecodeError"))
                /\ UNCHANGED <<log, npm_install_result>>
           ELSE /\ Proceed("install", "merge")
                /\ log' = log_console_output(log, outcome.stdout)
                /\ npm_install_result' = Some(node_modules)
    /\ UNCHANGED <<field_set, closure, options, environ, bins, source_roots,
                   source_files, stripped_files, binary_request, node_paths,
                   build_context, build_result, package>>

Merge ==
    /\ pc = "merge"
    /\ IF MergeDigestsFails({stripped_files[1], npm_install_result[1]})
       THEN /\ Raise("merge", Exception("MergeConflict"))
            /\ build_context' = build_context
       ELSE /\ Proceed("merge", "build")
            /\ build_context' =
                   Some(MergeDigests({stripped_files[1], npm_install_result[1]}))
    /\ UNCHANGED <<field_set, closure, options, environ, bins, source_roots,
                   source_files, stripped_files, binary_request, node_paths, procs,
                   log, npm_install_result, build_result, package>>

Build ==
    /\ pc = "build"
    /\ \E outcome \in ProcessOutcomes, produced \in BuildProducts :
        /\ procs' = Started(Process(node_paths[1].binary_path,
                                    <<"run-script", "pants:build">>,
                                    build_context[1], field_set.artifact_paths,
                                    node_paths[1].search_paths), outcome,
                             Capture(produced, field_set.artifact_paths))
        /\ IF ProcessRaises(outcome)
           THEN /\ Raise("build", ProcessExecutionFailure(outcome))
                /\ UNCHANGED <<log, build_result>>
           ELSE IF ~Utf8Valid(outcome.stdout)
           THEN /\ Raise("build", Exception("UnicodeDecodeError"))
                /\ UNCHANGED <<log, build_result>>
           ELSE /\ Proceed("build", "route")
                /\ log' = log_console_output(log, outcome.stdout)
                /\ build_result' = Some(Capture(produced, field_set.artifact_paths))
    /\ UNCHANGED <<field_set, closure, options, environ, bins, source_roots,
                   source_files, stripped_files, binary_request, node_paths,
                   npm_install_result, build_context, package>>

\* variant: the package root is not added before the source roots are stripped
RoutedWithoutPackageRoot(output_digest, fs, roots) ==
    IF fs.output_path # None
    THEN [kind |-> "ok", digest |-> AddPrefix(output_digest, fs.output_path[1])]
    ELSE strip_source_roots(output_digest, roots)

\* variant: the source roots are not stripped
RoutedWithoutStrip(output_digest, fs, roots) ==
    IF fs.output_path # None
    THEN [kind |-> "ok", digest |-> AddPrefix(output_digest, fs.output_path[1])]
    ELSE [kind |-> "ok", digest |-> AddPrefix(output_digest, fs.spec_path)]

\* variant: the package root is kept below the output path
RoutedUnderPackageRoot(output_digest, fs, roots) ==
    IF fs.output_path # None
    THEN [kind |-> "ok",
          digest |-> AddPrefix(AddPrefix(output_digest, fs.spec_path), fs.output_path[1])]
    ELSE strip_source_roots(AddPrefix(output_digest, fs.spec_path), roots)

\* the digest get_node_package_digest returns for a build output: [kind, digest]
Routed(output_digest, fs, roots) ==
    IF fs.output_path # None
    THEN [kind |-> "ok", digest |-> AddPrefix(output_digest, fs.output_path[1])]
    ELSE strip_source_roots(AddPrefix(output_digest, fs.spec_path), roots)

Route ==
    /\ pc = "route"
    /\ \E roots \in RootSets :
        /\ source_roots' = IF field_set.output_path # None THEN None ELSE Some(roots)
        /\ LET routed == Routed(build_result[1], field_set, roots)
           IN  IF routed.kind = "ok"
               THEN /\ Proceed("route", "done")
                    /\ package' = Some(routed.digest)
               ELSE /\ Raise("route", Exception(routed.kind))
                    /\ package' = package
    /\ UNCHANGED <<field_set, closure, options, environ, bins,
                   source_files, stripped_files, binary_request, node_paths, procs,
                   log, npm_install_result, build_context, build_result>>

Next == Collect \/ Strip \/ Locate \/ Install \/ Merge \/ Build \/ Route

Spec == Init /\ [][Next]_vars

\* ------------------------------------------------------------------ properties
Order == <<"collect", "strip", "locate", "install", "merge", "build", "route">>

Ran(step) == \E i \in 1..Len(steps) : steps[i] = step

Paths(digest) == {e.path : e \in digest}

\* the build output with the package root in front of every path
Rooted == {[e EXCEPT !.path = field_set.spec_path \o e.path] : e \in build_result[1]}

\* the declared root nearest to an entry, as a path ("." read as the empty path)
NearestRoot(e) ==
    CHOOSE r \in source_roots[1] :
        /\ IsPrefix(r, IF e.is_file THEN ParentOf(e.path) ELSE e.path)
        /\ \A r2 \in source_roots[1] :
              IsPrefix(r2, IF e.is_file THEN ParentOf(e.path) ELSE e.path)
                  => Len(r2) <= Len(r)

\* r is the declared root nearest to an entry
IsNearestRoot(r, e) ==
    /\ r \in source_roots[1]
    /\ IsPrefix(r, IF e.is_file THEN ParentOf(e.path) ELSE e.path)
    /\ \A r2 \in source_roots[1] :
          IsPrefix(r2, IF e.is_file THEN ParentOf(e.path) ELSE e.path) => Len(r2) <= Len(r)

StrippedPerFile(digest) ==
    {[e EXCEPT !.path = DropPrefix(NearestRoot(e), e.path)] : e \in digest}

\* C1: without an explicit output path the returned digest is the build output
\* with the package root prepended to every path and then, entry by entry,
\* the entry's own source root removed
C1_RootedThenStripped ==
    (pc = "done" /\ field_set.output_path = None)
        => package = Some(StrippedPerFile(Rooted))

C1_Witness ==
    /\ pc = "done"
    /\ field_set.output_path = None
    /\ field_set.spec_path = ServicesApp
    /\ source_roots = Some({ServicesApp, ServicesApp \o <<"dist">>})
    /\ Paths(package[1]) = {<<"bundle.js">>, <<"build", "bundle.js">>}

BundleJs == <<"dist", "bundle.js">>

EndToEndScenario ==
    /\ pc = "done"
    /\ field_set = [spec_path |-> ServicesApp, artifact_paths |-> << <<"dist", "**">> >>,
                    output_path |-> None]
    /\ Paths(source_files[1]) = {ServicesApp \o <<"package.json">>,
                                 ServicesApp \o <<"src", "index.js">>}
    /\ BundleJs \in Paths(build_result[1])

\* C2 as claimed: in the end-to-end scenario the artifact holds dist/bundle.js
\* and not services/app/dist/bundle.js
C2_AsClaimed ==
    EndToEndScenario
        => /\ BundleJs \in Paths(package[1])
           /\ ServicesApp \o BundleJs \notin Paths(package[1])

\* C2: in the end-to-end scenario, when services/app is the source root of
\* services/app/dist, the artifact holds dist/bundle.js and not
\* services/app/dist/bundle.js
C2_EndToEnd ==
    (EndToEndScenario /\ IsNearestRoot(ServicesApp, File(ServicesApp \o BundleJs, 5)))
        => /\ BundleJs \in Paths(package[1])
           /\ ServicesApp \o BundleJs \notin Paths(package[1])

C2_Witness ==
    /\ EndToEndScenario
    /\ source_roots = Some({<<>>, ServicesApp})
    /\ BundleJs \in Paths(package[1])

\* C3: with an explicit output path the returned digest is the build output
\* with the output path in front of every path, and routing does not fail
C3_ExplicitOutputPath ==
    (field_set.output_path # None /\ Ran("route"))
        => /\ pc = "done"
           /\ package = Some({[e EXCEPT !.path = field_set.output_path[1] \o e.path] :
                                 e \in build_result[1]})

C3_Witness ==
    /\ pc = "done"
    /\ field_set.output_path = Some(<<"bundles", "app">>)
    /\ field_set.spec_path = ServicesApp
    /\ File(<<"bundles", "app">> \o BundleJs, 5) \in package[1]

\* the search list the options and the environment call for
EffectiveSearchPaths ==
    IF options.use_nvm /\ environ # None /\ environ[1] # <<>>
    THEN <<environ[1]>> \o options.search_paths
    ELSE options.search_paths

HoldsNpm(dirs) == \E i \in 1..Len(dirs) : dirs[i] \in bins

FirstHolding(dirs) ==
    CHOOSE i \in 1..Len(dirs) : dirs[i] \in bins /\ \A j \in 1..(i - 1) : dirs[j] \notin bins

\* C4 as claimed: locate searches search_paths, with NVM_BIN in front only when
\* use_nvm is set and NVM_BIN is present and non-empty, and returns npm from
\* the first directory of that list that holds one
C4_AsClaimed ==
    Ran("locate")
        => /\ binary_request = Some(EffectiveSearchPaths)
           /\ HoldsNpm(EffectiveSearchPaths)
                 => node_paths =
                        Some([binary_path |->
                                  EffectiveSearchPaths[FirstHolding(EffectiveSearchPaths)]
                                      \o <<"/", "n", "p", "m">>,
                              search_paths |-> EffectiveSearchPaths])

\* C5 as claimed: when no directory of the effective search list holds npm,
\* locate fails with the not-found error carrying the searched list, and no
\* subprocess is started
C5_AsClaimed ==
    (Ran("locate") /\ ~HoldsNpm(EffectiveSearchPaths))
        => /\ pc = "failed"
           /\ procs = <<>>
           /\ error # None /\ error[1].kind = "ValueError"
           /\ binary_request # None /\ error[1].searched = binary_request[1]

\* PATH as the subprocess reads it: the directories between the colons
RECURSIVE SplitPath(_)
SplitPath(s) ==
    IF s = <<>> THEN << <<>> >>
    ELSE IF Head(s) = ":" THEN << <<>> >> \o SplitPath(Tail(s))
    ELSE LET rest == SplitPath(Tail(s))
         IN  << <<Head(s)>> \o rest[1] >> \o Tail(rest)

\* C6: every subprocess is started with the npm that locate returned, the first
\* one of the searched list, and with an environment holding PATH alone, whose
\* directories are the searched list in order
C6_RestrictedPath ==
    \A i \in 1..Len(procs) :
        /\ binary_request # None /\ node_paths # None
        /\ HoldsNpm(binary_request[1])
        /\ procs[i].process.argv[1] =
               binary_request[1][FirstHolding(binary_request[1])] \o <<"/", "n", "p", "m">>
        /\ procs[i].process.argv[1] = node_paths[1].binary_path
        /\ DOMAIN procs[i].process.env = {"PATH"}
        /\ SplitPath(procs[i].process.env["PATH"]) = binary_request[1]

C6_Witness ==
    /\ Len(procs) = 2
    /\ binary_request = Some(<<NvmBin, DirA, DirB>>)
    /\ node_paths[1].binary_path = DirB \o <<"/", "n", "p", "m">>

\* C7: the steps executed are a prefix of collect, strip, locate, install,
\* merge, build, route, each at most once; the rule is at the next step or
\* has failed; install and build are each started at most once, in that
\* order; a successful run executed every step once
C7_StepOrder ==
    /\ Len(steps) <= Len(Order)
    /\ steps = SubSeq(Order, 1, Len(steps))
    /\ pc \in {"failed", IF Len(steps) = Len(Order) THEN "done" ELSE Order[Len(steps) + 1]}
    /\ (pc = "failed") = (error # None)
    /\ Len(procs) = (IF Ran("install") THEN 1 ELSE 0) + (IF Ran("build") THEN 1 ELSE 0)
    /\ Len(procs) >= 1 => procs[1].process.argv[2] = "install"
    /\ Len(procs) >= 2 => procs[2].process.argv[2] = "run-script"
    /\ (binary_request # None) => Ran("locate")
    /\ pc = "done" => steps = Order /\ Len(procs) = 2

C7_Witness ==
    /\ pc = "done"
    /\ steps = Order
    /\ package # None

\* C8: a non-zero exit of install fails the pipeline with that exit code and
\* stderr, leaves no dependency tree and starts no build; a non-zero exit of
\* build fails the pipeline; a failed pipeline returns no digest
C8_FailurePropagation ==
    /\ (Len(procs) >= 1 /\ procs[1].exit_code # 0)
           => /\ pc = "failed" /\ Len(procs) = 1
              /\ error[1].kind = "ProcessExecutionFailure"
              /\ error[1].exit_code = procs[1].exit_code
              /\ error[1].stderr = procs[1].stderr
              /\ npm_install_result = None /\ build_context = None
              /\ build_result = None /\ package = None
    /\ (Len(procs) = 2 /\ procs[2].exit_code # 0)
           => /\ pc = "failed"
              /\ error[1].kind = "ProcessExecutionFailure"
              /\ error[1].exit_code = procs[2].exit_code
              /\ error[1].stderr = procs[2].stderr
              /\ build_result = None /\ package = None
    /\ pc = "failed" => package = None

C8_Witness ==
    /\ Len(procs) = 2
    /\ procs[2].exit_code = 1
    /\ npm_install_result # None
    /\ pc = "failed"

\* C9 as claimed: once the rule has ended, the stdout of every subprocess that
\* was started has been logged
C9_AsClaimed ==
    pc \in {"done", "failed"} => Len(log) = Len(procs)

\* C9: the stdout of a subprocess is logged, decoded and with escaped newlines
\* replaced, exactly when the subprocess exited zero and its stdout decodes as
\* UTF-8; otherwise the rule fails with nothing logged for that subprocess
C9_LoggedOnSuccess ==
    /\ Len(log) <= Len(procs)
    /\ \A i \in 1..Len(procs) :
          /\ (i <= Len(log)) = (procs[i].exit_code = 0 /\ Utf8Valid(procs[i].stdout))
          /\ i <= Len(log) => log[i] = ConsoleText(procs[i].stdout)
          /\ (i <= Len(log) /\ procs[i].stdout = <<111, 92, 110, 107>>)
                 => log[i] = <<111, 10, 107>>
          /\ i > Len(log) => pc = "failed" /\ i = Len(procs)

C9_Witness ==
    /\ pc = "failed"
    /\ Len(procs) = 2
    /\ procs[2].exit_code = 1
    /\ log = << <<111, 10, 107>> >>

\* C10: a collected source outside the package root fails the strip step with
\* a prefix mismatch, before npm is looked up or any subprocess is started;
\* otherwise strip succeeds and removes the package root from every path
C10_StripSources ==
    Ran("strip")
        => /\ source_files =
                  Some(UNION {t.sources : t \in {u \in closure : u.has_field}})
           /\ IF \E e \in source_files[1] : ~IsPrefix(field_set.spec_path, e.path)
              THEN /\ pc = "failed" /\ steps = <<"collect", "strip">>
                   /\ error[1].kind = "PrefixMismatch"
                   /\ stripped_files = None /\ binary_request = None
                   /\ node_paths = None /\ procs = <<>> /\ package = None
              ELSE /\ stripped_files # None
                   /\ Cardinality(stripped_files[1]) = Cardinality(source_files[1])
                   /\ \A e \in source_files[1] :
                          [e EXCEPT !.path = DropPrefix(field_set.spec_path, e.path)]
                              \in stripped_files[1]
                   /\ ~(pc = "failed" /\ steps = <<"collect", "strip">>)

C10_Witness ==
    /\ pc = "failed"
    /\ field_set.spec_path = ServicesApp
    /\ File(Lib \o <<"util.js">>, 3) \in source_files[1]
    /\ File(ServicesApp \o <<"package.json">>, 1) \in source_files[1]
    /\ error[1].kind = "PrefixMismatch"

\* an entry of a rooted digest with its own nearest root removed
StrippedEntry(e) == [e EXCEPT !.path = DropPrefix(NearestRoot(e), e.path)]

AllRooted ==
    \A e \in Rooted : \E r \in source_roots[1] :
        IsPrefix(r, IF e.is_file THEN ParentOf(e.path) ELSE e.path)

\* two entries of the rooted digest become the same path
Collide ==
    \E e1 \in Rooted, e2 \in Rooted :
        e1 # e2 /\ StrippedEntry(e1).path = StrippedEntry(e2).path

\* ... and differ in what they hold
Conflict ==
    \E e1 \in Rooted, e2 \in Rooted :
        /\ StrippedEntry(e1).path = StrippedEntry(e2).path
        /\ StrippedEntry(e1) # StrippedEntry(e2)

StripStepRan == Ran("route") /\ field_set.output_path = None

\* C11 as claimed: whenever every entry has a root, the per-file strip returns
\* each entry with its own root removed, one entry for each input entry
C11_AsClaimed ==
    (StripStepRan /\ AllRooted)
        => /\ pc = "done"
           /\ \A e \in Rooted : StrippedEntry(e) \in package[1]
           /\ Cardinality(package[1]) = Cardinality(Rooted)

\* C11: whenever every entry has a root, the per-file strip removes from each
\* entry its own root and returns the union of the results; the output has
\* one entry for each input entry unless two entries become the same path:
\* identical ones are merged into one, different ones fail the merge
C11_PerFileRoots ==
    (StripStepRan /\ AllRooted)
        => IF Conflict
           THEN pc = "failed" /\ error[1].kind = "MergeConflict" /\ package = None
           ELSE /\ pc = "done"
                /\ \A e \in Rooted : StrippedEntry(e) \in package[1]
                /\ \A o \in package[1] : \E e \in Rooted : o = StrippedEntry(e)
                /\ (Cardinality(package[1]) = Cardinality(Rooted)) = ~Collide
                /\ Cardinality(package[1]) <= Cardinality(Rooted)

C11_Witness ==
    /\ pc = "done"
    /\ field_set.spec_path = ServicesApp
    /\ source_roots = Some({ServicesApp \o <<"dist">>, ServicesApp \o <<"build">>})
    /\ Cardinality(build_result[1]) = 2
    /\ package = Some({File(<<"bundle.js">>, 5)})

Unrooted(e) ==
    \A r \in source_roots[1] :
        ~IsPrefix(r, IF e.is_file THEN ParentOf(e.path) ELSE e.path)

\* C12 as claimed: in the strip of the build output an entry with a declared
\* root loses that one root, and an entry with no declared root is returned
\* with its path unchanged
C12_AsClaimed ==
    StripStepRan
        => \A e \in Rooted :
              IF Unrooted(e)
              THEN pc = "done" /\ e \in package[1]
              ELSE pc = "done" => StrippedEntry(e) \in package[1]

\* C12: a root-stripping step that succeeds removes exactly one root from
\* every entry and drops none: the package root from the sources, the nearest
\* declared source root from the build output; an entry of the build output
\* with no declared root fails the step and nothing is returned
C12_OneRootOrFailure ==
    /\ stripped_files # None
           => /\ \A e \in source_files[1] :
                     \E o \in stripped_files[1] :
                         /\ field_set.spec_path \o o.path = e.path
                         /\ o.content = e.content
              /\ Cardinality(stripped_files[1]) = Cardinality(source_files[1])
    /\ StripStepRan
           => IF \E e \in Rooted : Unrooted(e)
              THEN /\ pc = "failed"
                   /\ error[1].kind = "NoSourceRootError"
                   /\ package = None
              ELSE pc = "done"
                       => /\ \A e \in Rooted : \E o \in package[1] :
                                 /\ NearestRoot(e) \o o.path = e.path
                                 /\ o.content = e.content /\ o.is_file = e.is_file
                          /\ \A o \in package[1] : \E e \in Rooted :
                                 /\ NearestRoot(e) \o o.path = e.path
                                 /\ o.content = e.content /\ o.is_file = e.is_file

C12_Witness ==
    /\ pc = "failed"
    /\ Ran("route")
    /\ field_set.spec_path = <<>>
    /\ source_roots = Some({ServicesApp, <<"dist">>})
    /\ File(<<"dist", "bundle.js">>, 5) \in build_result[1]
    /\ File(<<"build", "bundle.js">>, 6) \in build_result[1]
    /\ error[1].kind = "NoSourceRootError"

\* the build exited zero and returned nothing for the declared output paths
EmptyBuild ==
    /\ Len(procs) = 2
    /\ procs[2].exit_code = 0
    /\ procs[2].output_digest = {}

\* C13 as claimed: a build that exits zero with no output under the declared
\* paths never fails the pipeline, which returns the empty digest, with or
\* without an explicit output path
C13_AsClaimed ==
    EmptyBuild
        => /\ pc \in {"route", "done"}
           /\ error = None
           /\ pc = "done" => package = Some({})

\* C13, where the code agrees: the same, for a build whose stdout decodes
C13_EmptyBuildLogged ==
    (EmptyBuild /\ Utf8Valid(procs[2].stdout))
        => /\ pc \in {"route", "done"}
           /\ error = None
           /\ pc = "done" => package = Some({})

C13_Witness ==
    /\ EmptyBuild
    /\ pc = "done"
    /\ field_set.output_path = None
    /\ source_roots = Some({})
    /\ package = Some({})

====
